---- MODULE Spec2Model ----
(***************************************************************************)
(* Model of mc/core/assets.py: AssetClass instances, the AssetManager's    *)
(* load bookkeeping (_load_asset, _check_loader_status) running on the     *)
(* control thread, and the AssetLoader worker thread.  Methods of the      *)
(* control thread are split at the statements the worker thread can        *)
(* observe; the worker's run loop is split at every queue operation and    *)
(* at the read of asset.loaded.                                            *)
(***************************************************************************)
EXTENDS Integers, Sequences, FiniteSets, TLC

\* ---- bounds of the model ----
\* assets created by _create_assets
MaxAssets == 2
\* load() and unload() calls made by the application
MaxCalls == 3

\* config['priority'] values an asset is created with / load(priority=...)
Priorities == {-1, 2, 10}
\* priority argument of load(): <<>> is None, <<p>> is the integer p
NoPriority == <<>>
OverridePriorities == {2}
PriorityArgs == {NoPriority} \cup {<<p>> : p \in OverridePriorities}
\* callback=None argument of load()
NoCallback == "None"
Callbacks == {"cb1", "cb2"}

VARIABLES
    next_id,             \* AssetClass._next_id
    priority,            \* asset.priority, indexed by asset._id
    loading,             \* asset.loading
    loaded,              \* asset.loaded
    unloading,           \* asset.unloading
    callbacks,           \* asset._callbacks
    content,             \* effect of the last _do_load / _do_unload primitive
    num_assets_to_load,  \* AssetManager.num_assets_to_load
    num_assets_loaded,   \* AssetManager.num_assets_loaded
    loader_queue,        \* AssetManager.loader_queue (heap list of PriorityQueue)
    loaded_queue,        \* AssetManager.loaded_queue (FIFO)
    loaded_watcher,      \* AssetManager._loaded_watcher
    crash_queue,         \* mc.crash_queue
    worker_pc,           \* position of AssetLoader.run
    worker_asset,        \* local 'asset' of AssetLoader.run
    ctl_pc,              \* position of the control thread
    ctl_asset,           \* 'self' of the AssetClass method being executed
    invoked,             \* history: number of times callback() was called, per asset
    supplied,            \* history: number of load() calls that supplied the callback
    hist,                \* history counters (see Init)
    asset_id,            \* asset._id, indexed by construction order
    mc,                  \* startup gate and load-key loops (see StartupIdle)
    asset_classes,       \* AssetManager._asset_classes
    mc_attributes,       \* names n with hasattr(mc, n)
    raised,              \* exception raised by the last register_asset_class
    reg_hist,            \* history of the register_asset_class calls
    disc,                \* a run of _create_asset_config_entries
    loc                  \* a call of locate_asset_file

vars == <<next_id, priority, loading, loaded, unloading, callbacks, content,
          num_assets_to_load, num_assets_loaded, loader_queue, loaded_queue,
          loaded_watcher, crash_queue, worker_pc, worker_asset,
          ctl_pc, ctl_asset, invoked, supplied, hist, asset_id, mc,
          asset_classes, mc_attributes, raised, reg_hist, disc, loc>>

assetVars == <<next_id, asset_id, priority, loading, loaded, unloading, callbacks, content>>
managerVars == <<num_assets_to_load, num_assets_loaded, loaded_watcher>>
workerVars == <<worker_pc, worker_asset>>
ctlVars == <<ctl_pc, ctl_asset>>
registryVars == <<asset_classes, mc_attributes, raised, reg_hist>>
libVars == <<registryVars, disc, loc>>
\* the state of the two threads, the queues and the asset instances
mainVars == <<assetVars, managerVars, loader_queue, loaded_queue, crash_queue,
              workerVars, ctlVars, invoked, supplied, hist>>

Assets == DOMAIN asset_id

\* ---- "%s" % int and str comparison ----

\* code points of the characters the keys are made of
Digit(d) == 48 + d
Minus == 45
Comma == 44
Space == 32

RECURSIVE NatStr(_)
NatStr(n) == IF n < 10 THEN <<Digit(n)>> ELSE NatStr(n \div 10) \o <<Digit(n % 10)>>

\* "%s" % n for an int n
IntStr(n) == IF n < 0 THEN <<Minus>> \o NatStr(0 - n) ELSE NatStr(n)

\* "%s, %s" % (p, id)
SortKey(p, id) == IntStr(p) \o <<Comma, Space>> \o IntStr(id)

\* s > t for str: lexicographic by code point, a proper prefix is smaller
RECURSIVE StrGt(_, _)
StrGt(s, t) ==
    IF s = <<>> THEN FALSE
    ELSE IF t = <<>> THEN TRUE
    ELSE IF Head(s) # Head(t) THEN Head(s) > Head(t)
    ELSE StrGt(Tail(s), Tail(t))

\* AssetClass.__lt__(self=a, other=b)
AssetLt(a, b) ==
    StrGt(SortKey(priority[a], asset_id[a]), SortKey(priority[b], asset_id[b]))

\* ---- heapq, as used by queue.PriorityQueue._put / _get ----

RECURSIVE Siftdown(_, _, _, _)
Siftdown(heap, startpos, pos, newitem) ==
    IF pos > startpos /\ AssetLt(newitem, heap[pos \div 2])
    THEN Siftdown([heap EXCEPT ![pos] = heap[pos \div 2]], startpos, pos \div 2, newitem)
    ELSE [heap EXCEPT ![pos] = newitem]

RECURSIVE Siftup(_, _, _, _)
Siftup(heap, startpos, pos, newitem) ==
    LET childpos == 2 * pos
        rightpos == childpos + 1
        c == IF rightpos <= Len(heap) /\ ~AssetLt(heap[childpos], heap[rightpos])
             THEN rightpos ELSE childpos
    IN  IF childpos <= Len(heap)
        THEN Siftup([heap EXCEPT ![pos] = heap[c]], startpos, c, newitem)
        ELSE Siftdown([heap EXCEPT ![pos] = newitem], startpos, pos, newitem)

\* PriorityQueue.put(item)
Heappush(heap, item) ==
    Siftdown(Append(heap, item), 1, Len(heap) + 1, item)

\* PriorityQueue.get(): the item returned and the heap left behind
HeappopItem(heap) == heap[1]
HeappopRest(heap) ==
    LET lastelt == heap[Len(heap)]
        rest == SubSeq(heap, 1, Len(heap) - 1)
    IN  IF rest = <<>> THEN rest ELSE Siftup(rest, 1, 1, lastelt)

\* ---- AssetManager.loading_percent ----

\* round(n / d) of Python 3 for n >= 0, d > 0: to the nearest integer, a tie to
\* the even one
Round(n, d) ==
    LET q == n \div d
        r == n % d
    IN  IF 2 * r < d THEN q
        ELSE IF 2 * r > d THEN q + 1
        ELSE IF q % 2 = 0 THEN q ELSE q + 1

\* the divisor of line 67
Hundred == 100

\* AssetManager.loading_percent: num_assets_to_load / num_assets_loaded / 100,
\* and 100 on ZeroDivisionError
LoadingPercent ==
    IF num_assets_loaded = 0 THEN Hundred
    ELSE Round(num_assets_to_load, num_assets_loaded * Hundred)

\* ---- AssetClass ----

Callable(cb) == cb # NoCallback

\* AssetClass._get_id
GetId == next_id + 1

\* AssetClass._call_callbacks on asset a: the new invocation counts
CallCallbacks(a) ==
    [invoked EXCEPT ![a] = [cb \in Callbacks |->
        IF cb \in callbacks[a] /\ Callable(cb) THEN @[cb] + 1 ELSE @[cb]]]

\* the manager, its worker and the asset instances after AssetManager.__init__
ManagerInit ==
    /\ next_id = 0
    /\ asset_id = <<>>
    /\ priority = <<>>
    /\ loading = <<>>
    /\ loaded = <<>>
    /\ unloading = <<>>
    /\ callbacks = <<>>
    /\ content = <<>>
    /\ num_assets_to_load = 0
    /\ num_assets_loaded = 0
    /\ loader_queue = <<>>
    /\ loaded_queue = <<>>
    /\ loaded_watcher = FALSE
    /\ crash_queue = <<>>
    /\ worker_pc = "get"
    /\ worker_asset = 0
    /\ ctl_pc = "idle"
    /\ ctl_asset = 0
    /\ invoked = <<>>
    /\ supplied = <<>>
    /\ hist = [loads |-> 0,        \* load() calls made
               unloads |-> 0,      \* unload() calls made
               do_unloads |-> 0,   \* _do_unload() calls made
               submitted |-> 0,    \* _load_asset() calls made
               drained |-> 0,      \* completions taken off loaded_queue and counted
               dequeued |-> 0,     \* requests taken off loader_queue by the worker
               published |-> 0,    \* requests put on loaded_queue by the worker
               faults |-> 0,       \* exceptions raised by _do_load
               marked |-> {},      \* assets _loaded has marked Loaded
               fifo |-> <<>>,      \* the requests in loader_queue, in submission order
               stale |-> FALSE,    \* load(priority=p) changed a queued asset's priority
               on_unloaded |-> TRUE] \* every load() so far found the asset Unloaded

\* load keys an asset's config['load'] takes
LoadKeys == {"preload", "mode1_start"}

\* before _create_assets: no load key recorded, no manager loop running, the
\* tracker not scheduled, the boot hold 'assets' not cleared
StartupIdle ==
    mc = [load |-> <<>>,        \* asset.config['load'], by construction order
          started |-> FALSE,    \* _create_assets has been entered
          op |-> "none",        \* manager method the control thread is in
          key |-> "none",       \* key_name of load_assets_by_load_key
          todo |-> <<>>,        \* assets the loop of the method has yet to visit
          called |-> <<>>,      \* history: assets the method called load() on
          returned |-> {},      \* history: last value load_assets_by_load_key returned
          calls |-> 0,          \* history: calls the application has made
          tracker |-> FALSE,    \* _startup_load_tracker is scheduled
          cleared |-> 0]        \* mc.clear_boot_hold('assets') calls made

\* names the mc object has before any asset class is registered
BuiltinAttributes == {"events"}

RegistryInit ==
    /\ asset_classes = <<>>
    /\ mc_attributes = [n \in BuiltinAttributes |-> {}]
    /\ raised = "None"
    /\ reg_hist = [calls |-> 0,        \* register_asset_class calls made
                   attribute |-> "",   \* the attribute argument of the last call
                   order |-> <<>>]     \* attributes of the calls that returned

\* no run of _create_asset_config_entries is being looked at
DiscIdle == disc = <<>>

\* no locate_asset_file call is being looked at
LocIdle == loc = <<>>

Init == ManagerInit /\ StartupIdle /\ RegistryInit /\ DiscIdle /\ LocIdle

\* CreateAsset without the increment of line 576: every instance gets the same id
CreateAsset_NoIncrement(p) ==
    /\ ctl_pc = "idle"
    /\ Len(asset_id) < MaxAssets
    /\ hist.loads = 0 /\ hist.unloads = 0
    /\ next_id' = next_id
    /\ asset_id' = Append(asset_id, GetId)
    /\ priority' = Append(priority, p)
    /\ loading' = Append(loading, FALSE)
    /\ loaded' = Append(loaded, FALSE)
    /\ unloading' = Append(unloading, FALSE)
    /\ callbacks' = Append(callbacks, {})
    /\ content' = Append(content, "none")
    /\ invoked' = Append(invoked, [cb \in Callbacks |-> 0])
    /\ supplied' = Append(supplied, [cb \in Callbacks |-> 0])
    /\ UNCHANGED <<libVars,
                   managerVars, loader_queue, loaded_queue, crash_queue,
                   workerVars, ctlVars, hist>>

\* AssetClass.__init__ with config priority p
CreateAsset(p) ==
    /\ ctl_pc = "idle"
    /\ Len(asset_id) < MaxAssets
    /\ hist.loads = 0 /\ hist.unloads = 0
    /\ next_id' = next_id + 1
    /\ asset_id' = Append(asset_id, GetId)
    /\ priority' = Append(priority, p)
    /\ loading' = Append(loading, FALSE)
    /\ loaded' = Append(loaded, FALSE)
    /\ unloading' = Append(unloading, FALSE)
    /\ callbacks' = Append(callbacks, {})
    /\ content' = Append(content, "none")
    /\ invoked' = Append(invoked, [cb \in Callbacks |-> 0])
    /\ supplied' = Append(supplied, [cb \in Callbacks |-> 0])
    /\ UNCHANGED <<libVars,
                   managerVars, loader_queue, loaded_queue, crash_queue,
                   workerVars, ctlVars, hist>>

InQueue(a) == \E i \in 1..Len(loader_queue) : loader_queue[i] = a

\* AssetClass.load(callback=cb, priority=p): entry, lines 612-615
LoadEntry(a, cb, p) ==
    /\ ctl_pc = "idle"
    /\ ctl_pc' = "load_617"
    /\ ctl_asset' = a
    /\ priority' = IF p # NoPriority THEN [priority EXCEPT ![a] = p[1]] ELSE priority
    /\ callbacks' = [callbacks EXCEPT ![a] = @ \cup {cb}]
    /\ supplied' = IF Callable(cb) THEN [supplied EXCEPT ![a][cb] = @ + 1] ELSE supplied
    /\ hist' = [hist EXCEPT !.loads = @ + 1,
                            !.stale = @ \/ (p # NoPriority /\ p # <<priority[a]>> /\ InQueue(a)),
                            !.on_unloaded = @ /\ ~loaded[a] /\ ~loading[a] /\ ~unloading[a]]
    /\ UNCHANGED <<libVars,
                   next_id, asset_id, loading, loaded, unloading, content, managerVars,
                   loader_queue, loaded_queue, crash_queue, workerVars, invoked>>

\* LoadCheck without the return of line 619: a Loaded asset is queued again
LoadCheck_NoReturn ==
    /\ ctl_pc = "load_617"
    /\ IF loaded[ctl_asset]
       THEN /\ invoked' = CallCallbacks(ctl_asset)
            /\ callbacks' = [callbacks EXCEPT ![ctl_asset] = {}]
       ELSE UNCHANGED <<invoked, callbacks>>
    /\ loading' = [loading EXCEPT ![ctl_asset] = TRUE]
    /\ ctl_pc' = "load_626"
    /\ UNCHANGED <<mc, libVars,
                   next_id, asset_id, priority, loaded, unloading, content, managerVars,
                   loader_queue, loaded_queue, crash_queue, workerVars,
                   ctl_asset, supplied, hist>>

\* AssetClass.load: lines 617-625
LoadCheck ==
    /\ ctl_pc = "load_617"
    /\ IF loaded[ctl_asset]
       THEN /\ invoked' = CallCallbacks(ctl_asset)
            /\ callbacks' = [callbacks EXCEPT ![ctl_asset] = {}]
            /\ ctl_pc' = "idle"
            /\ ctl_asset' = 0
            /\ UNCHANGED loading
       ELSE /\ loading' = [loading EXCEPT ![ctl_asset] = TRUE]
            /\ ctl_pc' = "load_626"
            /\ UNCHANGED <<invoked, callbacks, ctl_asset>>
    /\ UNCHANGED <<mc, libVars,
                   next_id, asset_id, priority, loaded, unloading, content, managerVars,
                   loader_queue, loaded_queue, crash_queue, workerVars,
                   supplied, hist>>

\* LoadAsset without lines 484-486: the poll is never scheduled
LoadAsset_NoWatcher ==
    /\ ctl_pc = "load_626"
    /\ num_assets_to_load' = num_assets_to_load + 1
    /\ loader_queue' = Heappush(loader_queue, ctl_asset)
    /\ ctl_pc' = "idle"
    /\ ctl_asset' = 0
    /\ hist' = [hist EXCEPT !.submitted = @ + 1, !.fifo = Append(@, ctl_asset)]
    /\ UNCHANGED <<mc, libVars,
                   assetVars, num_assets_loaded, loaded_watcher, loaded_queue,
                   crash_queue, workerVars, invoked, supplied>>

\* AssetManager._load_asset(asset), called from load() line 626
LoadAsset ==
    /\ ctl_pc = "load_626"
    /\ num_assets_to_load' = num_assets_to_load + 1
    /\ loader_queue' = Heappush(loader_queue, ctl_asset)
    /\ loaded_watcher' = TRUE
    /\ ctl_pc' = "idle"
    /\ ctl_asset' = 0
    /\ hist' = [hist EXCEPT !.submitted = @ + 1, !.fifo = Append(@, ctl_asset)]
    /\ UNCHANGED <<mc, libVars,
                   assetVars, num_assets_loaded, loaded_queue, crash_queue,
                   workerVars, invoked, supplied>>

\* AssetClass.unload(): line 649
UnloadEntry(a) ==
    /\ ctl_pc = "idle"
    /\ unloading' = [unloading EXCEPT ![a] = TRUE]
    /\ ctl_pc' = "unload_650"
    /\ ctl_asset' = a
    /\ hist' = [hist EXCEPT !.unloads = @ + 1]
    /\ UNCHANGED <<libVars,
                   next_id, asset_id, priority, loading, loaded, callbacks, content,
                   managerVars, loader_queue, loaded_queue, crash_queue,
                   workerVars, invoked, supplied>>

\* AssetClass.unload(): line 650
Unload650 ==
    /\ ctl_pc = "unload_650"
    /\ loaded' = [loaded EXCEPT ![ctl_asset] = FALSE]
    /\ ctl_pc' = "unload_651"
    /\ UNCHANGED <<mc, libVars,
                   next_id, asset_id, priority, loading, unloading, callbacks, content,
                   managerVars, loader_queue, loaded_queue, crash_queue,
                   workerVars, ctl_asset, invoked, supplied, hist>>

\* Unload651 without the assignment of line 651
Unload651_KeepsLoading ==
    /\ ctl_pc = "unload_651"
    /\ ctl_pc' = "unload_652"
    /\ UNCHANGED <<mc, libVars,
                   assetVars, managerVars, loader_queue, loaded_queue, crash_queue,
                   workerVars, ctl_asset, invoked, supplied, hist>>

\* AssetClass.unload(): line 651
Unload651 ==
    /\ ctl_pc = "unload_651"
    /\ loading' = [loading EXCEPT ![ctl_asset] = FALSE]
    /\ ctl_pc' = "unload_652"
    /\ UNCHANGED <<mc, libVars,
                   next_id, asset_id, priority, loaded, unloading, callbacks, content,
                   managerVars, loader_queue, loaded_queue, crash_queue,
                   workerVars, ctl_asset, invoked, supplied, hist>>

\* AssetClass.unload(): line 652, the _do_unload primitive
Unload652 ==
    /\ ctl_pc = "unload_652"
    /\ content' = [content EXCEPT ![ctl_asset] = "unloaded"]
    /\ ctl_pc' = "unload_653"
    /\ hist' = [hist EXCEPT !.do_unloads = @ + 1]
    /\ UNCHANGED <<mc, libVars,
                   next_id, asset_id, priority, loading, loaded, unloading, callbacks,
                   managerVars, loader_queue, loaded_queue, crash_queue,
                   workerVars, ctl_asset, invoked, supplied>>

\* Unload653 of an unload() that also drops the pending callbacks
Unload653_ClearsCallbacks ==
    /\ ctl_pc = "unload_653"
    /\ unloading' = [unloading EXCEPT ![ctl_asset] = FALSE]
    /\ callbacks' = [callbacks EXCEPT ![ctl_asset] = {}]
    /\ ctl_pc' = "idle"
    /\ ctl_asset' = 0
    /\ UNCHANGED <<mc, libVars,
                   next_id, asset_id, priority, loading, loaded, content,
                   managerVars, loader_queue, loaded_queue, crash_queue,
                   workerVars, invoked, supplied, hist>>

\* AssetClass.unload(): line 653 and return
Unload653 ==
    /\ ctl_pc = "unload_653"
    /\ unloading' = [unloading EXCEPT ![ctl_asset] = FALSE]
    /\ ctl_pc' = "idle"
    /\ ctl_asset' = 0
    /\ UNCHANGED <<mc, libVars,
                   next_id, asset_id, priority, loading, loaded, callbacks, content,
                   managerVars, loader_queue, loaded_queue, crash_queue,
                   workerVars, invoked, supplied, hist>>

\* PollLoop without the assignment of line 643
PollLoop_KeepsLoading ==
    /\ IF loaded_queue # <<>>
       THEN /\ ctl_asset' = Head(loaded_queue)
            /\ loaded_queue' = Tail(loaded_queue)
            /\ ctl_pc' = "loaded_644"
       ELSE /\ ctl_pc' = "poll_497"
            /\ UNCHANGED <<ctl_asset, loaded_queue>>
    /\ UNCHANGED <<mc, libVars,
                   assetVars, managerVars, loader_queue, crash_queue, workerVars,
                   invoked, supplied, hist>>

\* _check_loader_status lines 490-491: the loop test, get_nowait() and
\* AssetClass._loaded line 643
PollLoop ==
    /\ IF loaded_queue # <<>>
       THEN /\ ctl_asset' = Head(loaded_queue)
            /\ loaded_queue' = Tail(loaded_queue)
            /\ loading' = [loading EXCEPT ![Head(loaded_queue)] = FALSE]
            /\ ctl_pc' = "loaded_644"
       ELSE /\ ctl_pc' = "poll_497"
            /\ UNCHANGED <<ctl_asset, loaded_queue, loading>>
    /\ UNCHANGED <<mc, libVars,
                   next_id, asset_id, priority, loaded, unloading, callbacks, content,
                   managerVars, loader_queue, crash_queue, workerVars,
                   invoked, supplied, hist>>

\* AssetManager._check_loader_status is called by the Clock: it is scheduled
\* (line 485) exactly while _loaded_watcher is set (lines 486, 501-502)
PollTick ==
    /\ ctl_pc = "idle"
    /\ loaded_watcher
    /\ PollLoop

\* _check_loader_status: the loop test after an iteration
Poll490 ==
    /\ ctl_pc = "poll_490"
    /\ PollLoop

\* AssetClass._loaded line 644
Loaded644 ==
    /\ ctl_pc = "loaded_644"
    /\ loaded' = [loaded EXCEPT ![ctl_asset] = TRUE]
    /\ ctl_pc' = "loaded_645"
    /\ hist' = [hist EXCEPT !.marked = @ \cup {ctl_asset}]
    /\ UNCHANGED <<mc, libVars,
                   next_id, asset_id, priority, loading, unloading, callbacks, content,
                   managerVars, loader_queue, loaded_queue, crash_queue,
                   workerVars, ctl_asset, invoked, supplied>>

\* Loaded645 with a _call_callbacks that lacks line 634
Loaded645_KeepsCallbacks ==
    /\ ctl_pc = "loaded_645"
    /\ unloading' = [unloading EXCEPT ![ctl_asset] = FALSE]
    /\ invoked' = CallCallbacks(ctl_asset)
    /\ num_assets_loaded' = num_assets_loaded + 1
    /\ ctl_pc' = "poll_490"
    /\ ctl_asset' = 0
    /\ hist' = [hist EXCEPT !.drained = @ + 1]
    /\ UNCHANGED <<mc, libVars,
                   next_id, asset_id, priority, loading, loaded, callbacks, content,
                   num_assets_to_load, loaded_watcher, loader_queue, loaded_queue,
                   crash_queue, workerVars, supplied>>

\* AssetClass._loaded lines 645-646 and _check_loader_status line 492
Loaded645 ==
    /\ ctl_pc = "loaded_645"
    /\ unloading' = [unloading EXCEPT ![ctl_asset] = FALSE]
    /\ invoked' = CallCallbacks(ctl_asset)
    /\ callbacks' = [callbacks EXCEPT ![ctl_asset] = {}]
    /\ num_assets_loaded' = num_assets_loaded + 1
    /\ ctl_pc' = "poll_490"
    /\ ctl_asset' = 0
    /\ hist' = [hist EXCEPT !.drained = @ + 1]
    /\ UNCHANGED <<mc, libVars,
                   next_id, asset_id, priority, loading, loaded, content,
                   num_assets_to_load, loaded_watcher, loader_queue, loaded_queue,
                   crash_queue, workerVars, supplied>>

\* Poll497 without the assignment of line 500
Poll497_KeepsToLoad ==
    /\ ctl_pc = "poll_497"
    /\ IF num_assets_to_load = num_assets_loaded
       THEN /\ num_assets_loaded' = 0
            /\ loaded_watcher' = FALSE
            /\ UNCHANGED num_assets_to_load
       ELSE UNCHANGED managerVars
    /\ ctl_pc' = "idle"
    /\ UNCHANGED <<mc, libVars,
                   assetVars, loader_queue, loaded_queue, crash_queue,
                   workerVars, ctl_asset, invoked, supplied, hist>>

\* Poll497 without the unschedule and the assignment of lines 501-502
Poll497_KeepsWatcher ==
    /\ ctl_pc = "poll_497"
    /\ IF num_assets_to_load = num_assets_loaded
       THEN /\ num_assets_loaded' = 0
            /\ num_assets_to_load' = 0
            /\ UNCHANGED loaded_watcher
       ELSE UNCHANGED managerVars
    /\ ctl_pc' = "idle"
    /\ UNCHANGED <<mc, libVars,
                   assetVars, loader_queue, loaded_queue, crash_queue,
                   workerVars, ctl_asset, invoked, supplied, hist>>

\* _check_loader_status lines 497-502
Poll497 ==
    /\ ctl_pc = "poll_497"
    /\ IF num_assets_to_load = num_assets_loaded
       THEN /\ num_assets_loaded' = 0
            /\ num_assets_to_load' = 0
            /\ loaded_watcher' = FALSE
       ELSE UNCHANGED managerVars
    /\ ctl_pc' = "idle"
    /\ UNCHANGED <<mc, libVars,
                   assetVars, loader_queue, loaded_queue, crash_queue,
                   workerVars, ctl_asset, invoked, supplied, hist>>

\* ---- AssetLoader.run ----

\* seq without its first occurrence of x
RemoveFirst(seq, x) ==
    LET i == CHOOSE j \in 1..Len(seq) :
                 seq[j] = x /\ \A k \in 1..(j - 1) : seq[k] # x
    IN  SubSeq(seq, 1, i - 1) \o SubSeq(seq, i + 1, Len(seq))

\* line 545: asset = self.loader_queue.get()
WorkerGet ==
    /\ worker_pc = "get"
    /\ loader_queue # <<>>
    /\ worker_asset' = HeappopItem(loader_queue)
    /\ loader_queue' = HeappopRest(loader_queue)
    /\ worker_pc' = "check"
    /\ hist' = [hist EXCEPT !.dequeued = @ + 1,
                            !.fifo = RemoveFirst(@, HeappopItem(loader_queue))]
    /\ UNCHANGED <<mc, libVars,
                   assetVars, managerVars, loaded_queue, crash_queue, ctlVars,
                   invoked, supplied>>

\* WorkerCheck with a 'continue' for an asset that is already loaded
WorkerCheck_SkipDrops ==
    /\ worker_pc = "check"
    /\ IF ~loaded[worker_asset]
       THEN worker_pc' = "do_load" /\ UNCHANGED worker_asset
       ELSE worker_pc' = "get" /\ worker_asset' = 0
    /\ UNCHANGED <<mc, libVars,
                   assetVars, managerVars, loader_queue, loaded_queue, crash_queue,
                   ctlVars, invoked, supplied, hist>>

\* line 547: if not asset.loaded
WorkerCheck ==
    /\ worker_pc = "check"
    /\ worker_pc' = IF ~loaded[worker_asset] THEN "do_load" ELSE "put"
    /\ UNCHANGED <<mc, libVars,
                   assetVars, managerVars, loader_queue, loaded_queue, crash_queue,
                   worker_asset, ctlVars, invoked, supplied, hist>>

\* line 548: asset._do_load() returns
WorkerDoLoad ==
    /\ worker_pc = "do_load"
    /\ content' = [content EXCEPT ![worker_asset] = "loaded"]
    /\ worker_pc' = "put"
    /\ UNCHANGED <<mc, libVars,
                   next_id, asset_id, priority, loading, loaded, unloading, callbacks,
                   managerVars, loader_queue, loaded_queue, crash_queue,
                   worker_asset, ctlVars, invoked, supplied, hist>>

\* line 548: asset._do_load() raises an Exception
WorkerDoLoadRaises ==
    /\ worker_pc = "do_load"
    /\ worker_pc' = "except"
    /\ hist' = [hist EXCEPT !.faults = @ + 1]
    /\ UNCHANGED <<mc, libVars,
                   assetVars, managerVars, loader_queue, loaded_queue, crash_queue,
                   worker_asset, ctlVars, invoked, supplied>>

\* WorkerPut of a run() that lacks line 550: the completion is not published
WorkerPut_Drops ==
    /\ worker_pc = "put"
    /\ worker_pc' = "get"
    /\ worker_asset' = 0
    /\ hist' = [hist EXCEPT !.published = @ + 1]
    /\ UNCHANGED <<mc, libVars,
                   assetVars, managerVars, loader_queue, loaded_queue, crash_queue,
                   ctlVars, invoked, supplied>>

\* line 550: self.loaded_queue.put(asset)
WorkerPut ==
    /\ worker_pc = "put"
    /\ loaded_queue' = Append(loaded_queue, worker_asset)
    /\ worker_pc' = "get"
    /\ worker_asset' = 0
    /\ hist' = [hist EXCEPT !.published = @ + 1]
    /\ UNCHANGED <<mc, libVars,
                   assetVars, managerVars, loader_queue, crash_queue,
                   ctlVars, invoked, supplied>>

\* WorkerExcept of a run() whose try statement is inside the while loop: the
\* traceback is reported and the worker goes on with the next request
WorkerExcept_Continues ==
    /\ worker_pc = "except"
    /\ crash_queue' = Append(crash_queue, "traceback")
    /\ worker_pc' = "get"
    /\ worker_asset' = 0
    /\ UNCHANGED <<mc, libVars,
                   assetVars, managerVars, loader_queue, loaded_queue,
                   ctlVars, invoked, supplied, hist>>

\* WorkerExcept with 'except Exception: pass'
WorkerExcept_Swallows ==
    /\ worker_pc = "except"
    /\ worker_pc' = "dead"
    /\ worker_asset' = 0
    /\ UNCHANGED <<mc, libVars,
                   assetVars, managerVars, loader_queue, loaded_queue, crash_queue,
                   ctlVars, invoked, supplied, hist>>

\* lines 552-557: the except clause; run() returns and the thread ends
WorkerExcept ==
    /\ worker_pc = "except"
    /\ crash_queue' = Append(crash_queue, "traceback")
    /\ worker_pc' = "dead"
    /\ worker_asset' = 0
    /\ UNCHANGED <<mc, libVars,
                   assetVars, managerVars, loader_queue, loaded_queue,
                   ctlVars, invoked, supplied, hist>>

\* a load() call made by the application
LoadCall(a, cb, p) ==
    /\ hist.loads + hist.unloads < MaxCalls
    /\ LoadEntry(a, cb, p)
    /\ UNCHANGED mc

Load == \E a \in Assets, cb \in Callbacks \cup {NoCallback},
           p \in PriorityArgs : LoadCall(a, cb, p)

\* an unload() call made by the application
UnloadCall(a) ==
    /\ hist.loads + hist.unloads < MaxCalls
    /\ UnloadEntry(a)
    /\ UNCHANGED mc

Unload == \E a \in Assets : UnloadCall(a)

Create == \E p \in Priorities : CreateAsset(p) /\ UNCHANGED mc

Control ==
    \/ Create
    \/ Load
    \/ LoadCheck
    \/ LoadAsset
    \/ Unload
    \/ Unload650
    \/ Unload651
    \/ Unload652
    \/ Unload653
    \/ PollTick
    \/ Poll490
    \/ Loaded644
    \/ Loaded645
    \/ Poll497

Worker ==
    \/ WorkerGet
    \/ WorkerCheck
    \/ WorkerDoLoad
    \/ WorkerDoLoadRaises
    \/ WorkerPut
    \/ WorkerExcept

Next == Control \/ Worker

Spec == Init /\ [][Next]_vars

\* A method the control thread has entered runs to its end
Continue ==
    \/ LoadCheck
    \/ LoadAsset
    \/ Unload650
    \/ Unload651
    \/ Unload652
    \/ Unload653
    \/ Poll490
    \/ Loaded644
    \/ Loaded645
    \/ Poll497

\* The worker thread keeps running, a method of the control thread runs to its
\* end, and the Clock keeps calling the scheduled _check_loader_status
FairSpec ==
    /\ Spec
    /\ WF_vars(Worker)
    /\ WF_vars(Continue)
    /\ WF_vars(PollTick)

\* ---- AssetManager._create_assets and load_assets_by_load_key ----

\* the assets whose config['load'] is key, in the order of their construction
RECURSIVE WithLoadKey(_, _)
WithLoadKey(keys, key) ==
    IF keys = <<>> THEN <<>>
    ELSE WithLoadKey(SubSeq(keys, 1, Len(keys) - 1), key)
            \o (IF keys[Len(keys)] = key THEN <<Len(keys)>> ELSE <<>>)

\* _create_assets_from_disk, lines 273-277, called from _create_assets: an
\* instance with config priority p and config['load'] = key is constructed
CreateFromDisk(p, key) ==
    /\ ~mc.started
    /\ CreateAsset(p)
    /\ mc' = [mc EXCEPT !.load = Append(@, key)]

\* _create_assets, lines 164-170: the list preload_assets
PreloadAssets ==
    /\ ctl_pc = "idle"
    /\ ~mc.started
    /\ mc' = [mc EXCEPT !.started = TRUE,
                        !.op = "_create_assets",
                        !.todo = WithLoadKey(mc.load, "preload"),
                        !.called = <<>>]
    /\ UNCHANGED <<mainVars, libVars>>

\* asset.load() for the next asset of the loop, line 173 and line 464
LoopLoad ==
    /\ mc.op # "none"
    /\ mc.todo # <<>>
    /\ LoadEntry(Head(mc.todo), NoCallback, NoPriority)
    /\ mc' = [mc EXCEPT !.todo = Tail(@), !.called = Append(@, Head(mc.todo))]

\* CreateAssetsEnd that never schedules _startup_load_tracker
CreateAssetsEnd_NoTracker ==
    /\ ctl_pc = "idle"
    /\ mc.op = "_create_assets"
    /\ mc.todo = <<>>
    /\ IF mc.called # <<>>
       THEN mc' = [mc EXCEPT !.op = "none"]
       ELSE mc' = [mc EXCEPT !.op = "none", !.cleared = @ + 1]
    /\ UNCHANGED <<mainVars, libVars>>

\* _create_assets, lines 175-178
CreateAssetsEnd ==
    /\ ctl_pc = "idle"
    /\ mc.op = "_create_assets"
    /\ mc.todo = <<>>
    /\ IF mc.called # <<>>
       THEN mc' = [mc EXCEPT !.op = "none", !.tracker = TRUE]
       ELSE mc' = [mc EXCEPT !.op = "none", !.cleared = @ + 1]
    /\ UNCHANGED <<mainVars, libVars>>

\* TrackerTick without the test of line 505
TrackerTick_NoTest ==
    /\ ctl_pc = "idle"
    /\ mc.op = "none"
    /\ mc.tracker
    /\ mc' = [mc EXCEPT !.tracker = FALSE, !.cleared = @ + 1]
    /\ UNCHANGED <<mainVars, libVars>>

\* AssetManager._startup_load_tracker, called by the Clock while it is scheduled
TrackerTick ==
    /\ ctl_pc = "idle"
    /\ mc.op = "none"
    /\ mc.tracker
    /\ IF num_assets_to_load # 0
       THEN UNCHANGED mc
       ELSE mc' = [mc EXCEPT !.tracker = FALSE, !.cleared = @ + 1]
    /\ UNCHANGED <<mainVars, libVars>>

\* LoadByKey that takes every asset for one with the key
LoadByKey_AllAssets(key) ==
    /\ ctl_pc = "idle"
    /\ mc.started /\ mc.op = "none"
    /\ mc.calls < MaxCalls
    /\ mc' = [mc EXCEPT !.op = "load_assets_by_load_key",
                        !.key = key,
                        !.todo = [i \in 1..Len(mc.load) |-> i],
                        !.called = <<>>,
                        !.calls = @ + 1]
    /\ UNCHANGED <<mainVars, libVars>>

\* load_assets_by_load_key(key_name=key), lines 455-463: the assets to load
LoadByKey(key) ==
    /\ ctl_pc = "idle"
    /\ mc.started /\ mc.op = "none"
    /\ mc.calls < MaxCalls
    /\ mc' = [mc EXCEPT !.op = "load_assets_by_load_key",
                        !.key = key,
                        !.todo = WithLoadKey(mc.load, key),
                        !.called = <<>>,
                        !.calls = @ + 1]
    /\ UNCHANGED <<mainVars, libVars>>

\* load_assets_by_load_key, line 467: return assets
LoadByKeyReturn ==
    /\ ctl_pc = "idle"
    /\ mc.op = "load_assets_by_load_key"
    /\ mc.todo = <<>>
    /\ mc' = [mc EXCEPT !.op = "none",
                        !.returned = {mc.called[i] : i \in DOMAIN mc.called}]
    /\ UNCHANGED <<mainVars, libVars>>

\* an unload() call the application makes once _create_assets has returned
StartupUnload(a) ==
    /\ mc.started /\ mc.op = "none"
    /\ mc.calls < MaxCalls
    /\ UnloadEntry(a)
    /\ mc' = [mc EXCEPT !.calls = @ + 1]

\* the Clock calls _check_loader_status between two calls, not inside one
StartupPollTick == mc.op = "none" /\ PollTick

\* config.get('priority', 0) of a config that has no priority (line 593)
DefaultPriority == 0

StartupCreate == \E key \in LoadKeys : CreateFromDisk(DefaultPriority, key)

\* the steps of _create_assets and load_assets_by_load_key after their first
Loop ==
    \/ LoopLoad
    \/ CreateAssetsEnd
    \/ LoadByKeyReturn

StartupControl ==
    \/ StartupCreate
    \/ PreloadAssets
    \/ Loop
    \/ TrackerTick
    \/ \E key \in LoadKeys : LoadByKey(key)
    \/ \E a \in Assets : StartupUnload(a)
    \/ StartupPollTick
    \/ Continue

StartupNext == StartupControl \/ Worker

StartupSpec == Init /\ [][StartupNext]_vars

\* as FairSpec, and the Clock keeps calling _startup_load_tracker while it is
\* scheduled
FairStartupSpec ==
    /\ StartupSpec
    /\ WF_vars(Worker)
    /\ WF_vars(Continue)
    /\ WF_vars(Loop)
    /\ WF_vars(StartupPollTick)
    /\ WF_vars(TrackerTick)

\* ---- AssetManager.register_asset_class ----

MaxRegisterCalls == 4

AttributeNames == {"images", "sounds", "videos"} \cup BuiltinAttributes
ClassPriorities == {0, 1, 2}
AssetNames == {"x", "y"}

\* dict(): the function with no key
EmptyDict == <<>>

\* d.update(e): the items of e written over those of d
Update(d, e) ==
    [k \in DOMAIN d \cup DOMAIN e |-> IF k \in DOMAIN e THEN e[k] ELSE d[k]]

\* config['assets'] of the machine config: per config_section the 'default'
\* section and the sections of named folders
MachineAssets ==
    [images |-> [default |-> [load |-> "preload"],
                 foo |-> [load |-> "mode_start"]],
     sounds |-> [default |-> [load |-> "mode_start"]]]

\* the dict _set_asset_class_defaults stores in asset_class['defaults'], for
\* assets = config['assets']; a section that is there holds a 'default'
SetAssetClassDefaults(assets, config_section) ==
    IF config_section \in DOMAIN assets /\ assets[config_section] # EmptyDict
    THEN LET this_config == assets[config_section]
         IN  [n \in DOMAIN this_config |->
                 IF n = "default" THEN this_config["default"]
                 ELSE Update(this_config["default"], this_config[n])]
    ELSE EmptyDict

\* the place of x in a list sorted with key priority, reverse=True, which
\* already holds s: behind every item whose priority is not lower (stable)
RECURSIVE InsertDesc(_, _)
InsertDesc(s, x) ==
    IF s = <<>> THEN <<x>>
    ELSE IF Head(s).priority >= x.priority
         THEN <<Head(s)>> \o InsertDesc(Tail(s), x)
         ELSE <<x>> \o s

\* list.sort(key=lambda x: x['priority'], reverse=True)
RECURSIVE SortDesc(_)
SortDesc(s) ==
    IF s = <<>> THEN <<>>
    ELSE InsertDesc(SortDesc(SubSeq(s, 1, Len(s) - 1)), s[Len(s)])

\* the dict 'ac' of lines 114-120, with the defaults of line 124; the class,
\* its path_string and its config_section are named like the attribute
AssetClassDict(attribute, p) ==
    [attribute |-> attribute,
     priority |-> p,
     defaults |-> SetAssetClassDefaults(MachineAssets, attribute)]

\* setattr(mc, attribute, CaseInsensitiveDict())
SetAttr(attribute) ==
    [n \in DOMAIN mc_attributes \cup {attribute} |->
        IF n = attribute THEN {} ELSE mc_attributes[n]]

\* RegisterAssetClass without the sort of line 123
RegisterAssetClass_NoSort(attribute, p) ==
    /\ reg_hist.calls < MaxRegisterCalls
    /\ IF attribute \notin DOMAIN mc_attributes
       THEN /\ mc_attributes' = SetAttr(attribute)
            /\ asset_classes' = Append(asset_classes, AssetClassDict(attribute, p))
            /\ raised' = "None"
            /\ reg_hist' = [reg_hist EXCEPT !.calls = @ + 1,
                                            !.attribute = attribute,
                                            !.order = Append(@, attribute)]
       ELSE /\ raised' = "ValueError"
            /\ reg_hist' = [reg_hist EXCEPT !.calls = @ + 1,
                                            !.attribute = attribute]
            /\ UNCHANGED <<asset_classes, mc_attributes>>
    /\ UNCHANGED <<mainVars, mc, disc, loc>>

\* RegisterAssetClass without the hasattr test of line 107
RegisterAssetClass_Overwrites(attribute, p) ==
    /\ reg_hist.calls < MaxRegisterCalls
    /\ mc_attributes' = SetAttr(attribute)
    /\ asset_classes' = SortDesc(Append(asset_classes, AssetClassDict(attribute, p)))
    /\ raised' = "None"
    /\ reg_hist' = [reg_hist EXCEPT !.calls = @ + 1,
                                    !.attribute = attribute,
                                    !.order = Append(@, attribute)]
    /\ UNCHANGED <<mainVars, mc, disc, loc>>

\* AssetManager.register_asset_class(attribute=attribute, priority=p)
RegisterAssetClass(attribute, p) ==
    /\ reg_hist.calls < MaxRegisterCalls
    /\ IF attribute \notin DOMAIN mc_attributes
       THEN /\ mc_attributes' = SetAttr(attribute)
            /\ asset_classes' =
                   SortDesc(Append(asset_classes, AssetClassDict(attribute, p)))
            /\ raised' = "None"
            /\ reg_hist' = [reg_hist EXCEPT !.calls = @ + 1,
                                            !.attribute = attribute,
                                            !.order = Append(@, attribute)]
       ELSE /\ raised' = "ValueError"
            /\ reg_hist' = [reg_hist EXCEPT !.calls = @ + 1,
                                            !.attribute = attribute]
            /\ UNCHANGED <<asset_classes, mc_attributes>>
    /\ UNCHANGED <<mainVars, mc, disc, loc>>

\* _create_assets_from_disk, lines 273-277, for the class at place i and one
\* name of config[section]: the name is stored in the dict of the attribute
StoreAsset(i, name) ==
    /\ i \in DOMAIN asset_classes
    /\ name \notin mc_attributes[asset_classes[i].attribute]
    /\ mc_attributes' =
           [mc_attributes EXCEPT ![asset_classes[i].attribute] = @ \cup {name}]
    /\ UNCHANGED <<asset_classes, raised, reg_hist, mainVars, mc, disc, loc>>

Register == \E attribute \in AttributeNames, p \in ClassPriorities :
               RegisterAssetClass(attribute, p)

Store == \E i \in 1..MaxRegisterCalls, name \in AssetNames : StoreAsset(i, name)

RegistryNext == Register \/ Store

RegistrySpec == Init /\ [][RegistryNext]_vars

\* ---- AssetManager.locate_asset_file ----

\* a path: absolute or not, and its components
Path(abs, segs) == [abs |-> abs, segs |-> segs]

\* the string ''
EmptyPath == Path(FALSE, <<>>)

\* os.path.join(p, q): an absolute q replaces p, any other q is added to it
Join(p, q) == IF q.abs THEN q ELSE Path(p.abs, p.segs \o q.segs)

\* mc.machine_path
MachinePath == Path(TRUE, <<"machine">>)
ModePath == Path(TRUE, <<"machine", "modes", "mode1">>)

\* the 'path' argument: <<>> for None, <<p>> for the path p
NoPath == <<>>
PathArgs == {NoPath} \cup {<<p>> : p \in {EmptyPath, ModePath, MachinePath}}

\* the 'file_name' argument is the name of a file, the 'path_string' argument the
\* name of the folder of the asset class
FileNames == {Path(FALSE, <<"x.png">>), Path(FALSE, <<"y.png">>)}
PathString == Path(FALSE, <<"images">>)

\* the files os.path.isfile can find
DiskFiles ==
    {Path(r.abs, r.segs \o PathString.segs \o f.segs) :
        r \in {EmptyPath, ModePath, MachinePath}, f \in FileNames}

\* what a call does: returns a path or raises
Returns(p) == [raised |-> "None", path |-> p]
Raises(e) == [raised |-> e, path |-> EmptyPath]

\* lines 413-418: the given path if it is true, then the machine path
PathList(path) ==
    (IF path # NoPath /\ path[1] # EmptyPath THEN <<path[1]>> ELSE <<>>)
        \o <<MachinePath>>

\* LocateAssetFile with the machine path looked at first
LocateAssetFile_MachineFirst(file_name, path_string, path, files) ==
    LET path_list == <<MachinePath>> \o SubSeq(PathList(path), 1, Len(PathList(path)) - 1)
        full_path(i) == Join(Join(path_list[i], path_string), file_name)
        found == {i \in DOMAIN path_list : full_path(i) \in files}
    IN  IF found # {}
        THEN Returns(full_path(CHOOSE i \in found : \A j \in found : i <= j))
        ELSE Raises("ValueError")

\* AssetManager.locate_asset_file(file_name, path_string, path), on a disk that
\* holds 'files'
LocateAssetFile(file_name, path_string, path, files) ==
    LET path_list == PathList(path)
        full_path(i) == Join(Join(path_list[i], path_string), file_name)
        found == {i \in DOMAIN path_list : full_path(i) \in files}
    IN  IF found # {}
        THEN Returns(full_path(CHOOSE i \in found : \A j \in found : i <= j))
        ELSE Raises("ValueError")

\* the arguments of a call and the files on the disk
LocateInit ==
    /\ ManagerInit /\ StartupIdle /\ RegistryInit /\ DiscIdle
    /\ loc \in [file_name : FileNames, path : PathArgs, files : SUBSET DiskFiles,
                 done : {FALSE}, result : {Raises("None")}]

LocateCall ==
    /\ ~loc.done
    /\ loc' = [loc EXCEPT !.done = TRUE,
                          !.result = LocateAssetFile(loc.file_name, PathString,
                                                     loc.path, loc.files)]
    /\ UNCHANGED <<mainVars, mc, registryVars, disc>>

LocateNext == LocateCall

LocateSpec == LocateInit /\ [][LocateNext]_vars

\* ---- AssetManager._create_asset_config_entries ----

MaxFiles == 2

\* "/".join(segs)
RECURSIVE Slashed(_)
Slashed(segs) ==
    IF segs = <<>> THEN ""
    ELSE IF Len(segs) = 1 THEN segs[1]
    ELSE segs[1] \o "/" \o Slashed(Tail(segs))

\* the string of a path
PathStr(p) == (IF p.abs THEN "/" ELSE "") \o Slashed(p.segs)

\* os.path.basename(p)
Basename(p) == IF p.segs = <<>> THEN "" ELSE p.segs[Len(p.segs)]

\* the names of the files on the disk
DiskNames == {"x.png", "X.png", "notes.txt"}

\* os.path.splitext(file_name)
Splitext(file_name) ==
    CASE file_name = "x.png" -> <<"x", ".png">>
      [] file_name = "X.png" -> <<"X", ".png">>
      [] file_name = "notes.txt" -> <<"notes", ".txt">>

\* str.lower()
Lower(str) == IF str = "X" THEN "x" ELSE str

\* asset_class['extensions']
Extensions == {"png", "jpg"}

\* file_name.endswith(extensions)
Endswith(file_name, extensions) ==
    \E e \in extensions : Splitext(file_name)[2] = "." \o e

\* the folders under root_path, by their path from it
Folders == {<<>>, <<"foo">>, <<"bar">>, <<"images">>}

\* a file of the walk: the folder it is in and its name
DiskEntries == [dir : Folders, file_name : DiskNames]

\* os.walk(root_path) is top-down: the files of root_path come before the files
\* of the folders under it; no other order is fixed
Walks ==
    {w \in UNION {[1..n -> DiskEntries] : n \in 0..MaxFiles} :
        /\ \A i, j \in DOMAIN w : i # j => w[i] # w[j]
        /\ \A i, j \in DOMAIN w : i < j => ~(w[i].dir # <<>> /\ w[j].dir = <<>>)}

\* the 'default' section of config['assets'][config_section]
TypeDefaults == {[load |-> l, a |-> "1"] : l \in {"preload", "mode_start"}}

\* the section of the folder foo, and of a folder named like path_string
FooSections == {[b |-> "2"], [a |-> "2", load |-> "on_demand"]}
ImagesSections == {[a |-> "3"]}

\* config['assets'][config_section]
Sections ==
    {[default |-> d] : d \in TypeDefaults}
    \cup {[default |-> d, foo |-> f] : d \in TypeDefaults, f \in FooSections}
    \cup {[default |-> d, images |-> i] : d \in TypeDefaults, i \in ImagesSections}
    \cup {[default |-> d, foo |-> f, images |-> i] :
            d \in TypeDefaults, f \in FooSections, i \in ImagesSections}

\* the 'config' argument, in the order config.items() gives: an entry named
\* like the stem of x.png, an entry with 'file: x.png'
EntryX == [k |-> "x", v |-> [a |-> "9"]]
EntryHero == [k |-> "hero", v |-> [file |-> "x.png", b |-> "7"]]
Configs == {<<>>, <<EntryX>>, <<EntryHero>>, <<EntryX, EntryHero>>,
            <<EntryHero, EntryX>>}

\* the 'mode_name' argument: <<>> for None
NoMode == <<>>
ModeNames == {NoMode, <<"mode1">>}

\* '{}'.format(mode_name)
Format(mode_name) == IF mode_name = NoMode THEN "None" ELSE mode_name[1]

\* the places of the entries of config the file matches, lines 368-370
Matches(config, file_name, name) ==
    {i \in DOMAIN config :
        \/ "file" \in DOMAIN config[i].v /\ config[i].v["file"] = file_name
        \/ name = config[i].k}

First(places) == CHOOSE i \in places : \A j \in places : i <= j

\* the name the file is stored under, lines 345 and 373
EntryName(config, file_name) ==
    LET name == Lower(Splitext(file_name)[1])
        found == Matches(config, file_name, name)
    IN  IF found # {} THEN config[First(found)].k ELSE name

\* the path os.walk gives for a folder, and the path of a file in it
WalkPath(dir) == Join(Join(MachinePath, PathString), Path(FALSE, dir))
FullFilePath(entry) == Join(WalkPath(entry.dir), Path(FALSE, <<entry.file_name>>))

\* BuiltUpConfig with the defaults written over the matched entry
BuiltUpConfig_DefaultsWin(defaults, config, mode_name, entry) ==
    LET folder == Basename(WalkPath(entry.dir))
        name == Lower(Splitext(entry.file_name)[1])
        default_string ==
            IF folder = Basename(PathString) \/ folder \notin DOMAIN defaults
            THEN "default" ELSE folder
        found == Matches(config, entry.file_name, name)
        merged == IF found # {}
                  THEN Update(config[First(found)].v, defaults[default_string])
                  ELSE defaults[default_string]
        with_file == Update(merged, [k \in {"file"} |-> PathStr(FullFilePath(entry))])
    IN  IF with_file["load"] = "mode_start"
        THEN [with_file EXCEPT !["load"] = Format(mode_name) \o "_start"]
        ELSE with_file

\* built_up_config of lines 350-386 for one file of the walk
BuiltUpConfig(defaults, config, mode_name, entry) ==
    LET folder == Basename(WalkPath(entry.dir))
        name == Lower(Splitext(entry.file_name)[1])
        default_string ==
            IF folder = Basename(PathString) \/ folder \notin DOMAIN defaults
            THEN "default" ELSE folder
        found == Matches(config, entry.file_name, name)
        merged == IF found # {}
                  THEN Update(defaults[default_string], config[First(found)].v)
                  ELSE defaults[default_string]
        with_file == Update(merged, [k \in {"file"} |-> PathStr(FullFilePath(entry))])
    IN  IF with_file["load"] = "mode_start"
        THEN [with_file EXCEPT !["load"] = Format(mode_name) \o "_start"]
        ELSE with_file

\* config[name] = v: an entry that is there keeps its place
SetItem(config, name, v) ==
    IF \E i \in DOMAIN config : config[i].k = name
    THEN [i \in DOMAIN config |->
             IF config[i].k = name THEN [k |-> name, v |-> v] ELSE config[i]]
    ELSE Append(config, [k |-> name, v |-> v])

\* the arguments of a run: the defaults register_asset_class made of a section,
\* the config, the mode name, and the files the walk will give
DiscInit ==
    /\ ManagerInit /\ StartupIdle /\ RegistryInit /\ LocIdle
    /\ disc \in {[section |-> sec,
                  defaults |-> SetAssetClassDefaults([images |-> sec], "images"),
                  given |-> config,       \* the config argument as it was passed
                  config |-> config,
                  mode_name |-> m,
                  files |-> w,
                  seen |-> <<>>,          \* history: files handled, with their names
                  returned |-> FALSE] :
                    sec \in Sections, config \in Configs, m \in ModeNames, w \in Walks}

\* one file of the walk, lines 338-389; a file of another extension is left out
ProcessFile ==
    /\ disc # <<>> /\ disc.files # <<>>
    /\ LET entry == Head(disc.files)
           name == EntryName(disc.config, entry.file_name)
       IN  IF Endswith(entry.file_name, Extensions)
           THEN disc' = [disc EXCEPT
                    !.files = Tail(@),
                    !.config = SetItem(@, name,
                        BuiltUpConfig(disc.defaults, disc.config, disc.mode_name, entry)),
                    !.seen = Append(@, [name |-> name, entry |-> entry])]
           ELSE disc' = [disc EXCEPT !.files = Tail(@)]
    /\ UNCHANGED <<mainVars, mc, registryVars, loc>>

\* line 395: return config
DiscReturn ==
    /\ disc # <<>> /\ disc.files = <<>> /\ ~disc.returned
    /\ disc' = [disc EXCEPT !.returned = TRUE]
    /\ UNCHANGED <<mainVars, mc, registryVars, loc>>

DiscNext == ProcessFile \/ DiscReturn

DiscSpec == DiscInit /\ [][DiscNext]_vars

\* ---- properties ----

Unloaded(a) == ~loaded[a] /\ ~loading[a] /\ ~unloading[a]
Faulted == hist.faults > 0
\* the worker takes a request off loader_queue in this step
Dequeues == worker_pc = "get" /\ worker_pc' = "check"
\* position of the first occurrence of x in seq, 0 if there is none
FirstPos(seq, x) ==
    IF \E j \in 1..Len(seq) : seq[j] = x
    THEN CHOOSE j \in 1..Len(seq) : seq[j] = x /\ \A k \in 1..(j - 1) : seq[k] # x
    ELSE 0

\* C1: of two requests that are in loader_queue together, the worker dequeues
\* the one with the strictly higher priority first: no request left in the queue
\* by a dequeue has a higher priority than the request dequeued (priorities as
\* they were when the requests were queued: no load(priority=p) in between)
C1_HigherPriorityFirst ==
    [][(Dequeues /\ ~hist.stale) =>
        \A i \in 1..Len(loader_queue') :
            priority[loader_queue'[i]] <= priority[worker_asset']]_vars

\* C2: of two requests of equal priority that are in loader_queue together, the
\* worker dequeues the earlier submitted one, with the smaller creation id,
\* first: a dequeue leaves behind no request of the same priority that has a
\* smaller id and was submitted earlier
C2_EqualPriorityInSubmissionOrder ==
    [][(Dequeues /\ ~hist.stale) =>
        \A i \in 1..Len(loader_queue') :
            LET a == worker_asset'
                b == loader_queue'[i]
            IN  ~(/\ priority[b] = priority[a]
                  /\ b < a
                  /\ FirstPos(hist.fifo, b) < FirstPos(hist.fifo, a))]_vars

\* C3: load(callback) on a Loaded asset calls every pending callback, the one
\* just supplied among them, and returns without queueing anything: loader_queue,
\* the two counters and the asset's loading and loaded flags are left as they were
LoadFrame(a) ==
    /\ loader_queue' = loader_queue
    /\ num_assets_to_load' = num_assets_to_load
    /\ num_assets_loaded' = num_assets_loaded
    /\ loading'[a] = loading[a]
    /\ loaded'[a] = loaded[a]

C3_LoadOnLoaded ==
    [][/\ (ctl_pc = "idle" /\ ctl_pc' = "load_617" /\ loaded[ctl_asset']) =>
            /\ LoadFrame(ctl_asset')
            /\ \A cb \in Callbacks :
                   supplied'[ctl_asset'][cb] # supplied[ctl_asset'][cb]
                       => cb \in callbacks'[ctl_asset']
       /\ (ctl_pc = "load_617" /\ ctl_pc' # "load_617" /\ loaded[ctl_asset]) =>
            /\ ctl_pc' = "idle"
            /\ LoadFrame(ctl_asset)
            /\ callbacks'[ctl_asset] = {}
            /\ \A cb \in Callbacks :
                   invoked'[ctl_asset][cb] =
                       IF cb \in callbacks[ctl_asset]
                       THEN invoked[ctl_asset][cb] + 1
                       ELSE invoked[ctl_asset][cb]]_vars

\* a load("cb1") call on a Loaded asset has returned: the callback was called at
\* the completion and again by that call, and only one request was ever queued
C3_Witness ==
    /\ ctl_pc = "idle"
    /\ hist.submitted = 1
    /\ hist.loads = 2
    /\ \E a \in Assets : loaded[a] /\ invoked[a]["cb1"] = 2 /\ callbacks[a] = {}

\* C4: when no load primitive has faulted and the poll step has drained the
\* completion of every request submitted by _load_asset, both counters are 0 and
\* polling has stopped
C4_CountersReset ==
    (/\ ctl_pc = "idle"
     /\ ~Faulted
     /\ hist.submitted >= 1
     /\ hist.drained = hist.submitted)
        => /\ num_assets_to_load = 0
           /\ num_assets_loaded = 0
           /\ ~loaded_watcher

\* three requests were submitted and all three completions are drained
C4_Witness ==
    /\ ctl_pc = "idle"
    /\ ~Faulted
    /\ hist.submitted = 3
    /\ hist.drained = 3
    /\ num_assets_to_load = 0

\* C5: when unload() returns, the asset's loaded, loading and unloading flags are
\* all false and every unload() call made has invoked _do_unload exactly once
C5_UnloadSynchronous ==
    [][(ctl_pc = "unload_653" /\ ctl_pc' = "idle") =>
        /\ ~loaded'[ctl_asset]
        /\ ~loading'[ctl_asset]
        /\ ~unloading'[ctl_asset]
        /\ hist'.do_unloads = hist'.unloads]_vars

\* unload() has returned on an asset whose request was queued but not yet drained
C5_Witness ==
    /\ ctl_pc = "idle"
    /\ hist.unloads = 1
    /\ hist.do_unloads = 1
    /\ hist.drained = 0
    /\ \E a \in Assets : Unloaded(a) /\ callbacks[a] # {} /\ content[a] = "unloaded"

\* every request submitted so far has completed and been drained
Drained == ctl_pc = "idle" /\ hist.drained = hist.submitted

\* C6 as stated, its final result: when no primitive faulted, every load() was
\* made on an Unloaded asset and every request has been drained, each callback
\* has been called exactly once per load() call that supplied it
C6_ExactlyOncePerRequest ==
    (Drained /\ ~Faulted /\ hist.on_unloaded) =>
        \A a \in Assets : \A cb \in Callbacks : invoked[a][cb] = supplied[a][cb]

\* C6 as amended: under fair scheduling a callback pending on an Unloaded asset
\* that load() is about to queue is, unless a primitive faults, later taken off
\* the pending set with the asset Loaded; a callback leaves the pending set only
\* by being called, and is called at most once per load() call that supplied it
C6_LoadLeadsToCallback ==
    /\ \A a \in 1..MaxAssets : \A cb \in Callbacks :
           (/\ a \in Assets
            /\ ctl_pc = "load_617"
            /\ ctl_asset = a
            /\ Unloaded(a)
            /\ cb \in callbacks[a])
               ~> (Faulted \/ (a \in Assets /\ loaded[a] /\ cb \notin callbacks[a]))
    /\ [][\A a \in Assets : \A cb \in Callbacks :
              (cb \in callbacks[a] /\ cb \notin callbacks'[a])
                  => invoked'[a][cb] = invoked[a][cb] + 1]_vars
    /\ [](\A a \in Assets : \A cb \in Callbacks : invoked[a][cb] <= supplied[a][cb])

\* two load("cb1") calls on an Unloaded asset, an unload() between them, shared
\* one call of cb1, and the asset is Loaded
C6_Witness ==
    /\ Drained
    /\ ~Faulted
    /\ hist.on_unloaded
    /\ \E a \in Assets : loaded[a] /\ supplied[a]["cb1"] = 2 /\ invoked[a]["cb1"] = 1

\* C7: a completion, or load() on a Loaded asset, calls every callback then
\* pending exactly once and empties the set; callbacks are called by nothing
\* else and only while the asset's loaded flag is set; a callback is never
\* called more often than it was supplied to load()
Consumes(a) ==
    /\ ctl_asset = a
    /\ \/ hist'.drained # hist.drained
       \/ ctl_pc = "load_617" /\ ctl_pc' = "idle"

C7_CallbacksConsumedOnce ==
    /\ [][\A a \in Assets :
            IF Consumes(a)
            THEN /\ loaded[a]
                 /\ callbacks'[a] = {}
                 /\ \A cb \in Callbacks :
                        invoked'[a][cb] =
                            IF cb \in callbacks[a]
                            THEN invoked[a][cb] + 1
                            ELSE invoked[a][cb]
            ELSE invoked'[a] = invoked[a]]_vars
    /\ [](\A a \in Assets : \A cb \in Callbacks : invoked[a][cb] <= supplied[a][cb])

\* one completion called both pending callbacks once and emptied the set
C7_Witness ==
    /\ hist.drained = 1
    /\ \E a \in Assets :
           /\ callbacks[a] = {}
           /\ invoked[a]["cb1"] = 1
           /\ invoked[a]["cb2"] = 1

AtMostOneFlag(a) ==
    /\ ~(loading[a] /\ loaded[a])
    /\ ~(loading[a] /\ unloading[a])
    /\ ~(loaded[a] /\ unloading[a])

\* C8 as stated: in every state, the middle of load(), _loaded() and unload()
\* included, at most one of loading, loaded, unloading is true
C8_AtMostOneFlagAlways == \A a \in Assets : AtMostOneFlag(a)

\* C8 as amended: loading and loaded are never both true, in any state; at most
\* one of the three flags is true whenever the control thread is between
\* operations
C8_FlagsExclusive ==
    /\ \A a \in Assets : ~(loading[a] /\ loaded[a])
    /\ ctl_pc = "idle" => \A a \in Assets : AtMostOneFlag(a)

\* the worker reads asset.loaded while the control thread is in the middle of
\* _loaded() on the same asset
C8_Witness ==
    /\ ctl_pc = "loaded_645"
    /\ worker_pc = "check"
    /\ worker_asset = ctl_asset
    /\ loaded[ctl_asset]

\* C9 as stated: whatever the outcome of the primitive, every request the worker
\* has dequeued and is done with has been published exactly once
C9_PublishedWhateverOutcome ==
    worker_pc \in {"get", "dead"} => hist.published = hist.dequeued

\* C9 as amended: a request the worker dequeues is published exactly once when
\* the primitive returns or is skipped; the request whose primitive raises is
\* not published
C9_PublishedUnlessFault ==
    /\ [](/\ worker_pc = "get" => hist.published = hist.dequeued /\ ~Faulted
          /\ worker_pc \in {"check", "do_load", "put"} =>
                 hist.published = hist.dequeued - 1 /\ ~Faulted
          /\ worker_pc \in {"except", "dead"} =>
                 hist.published = hist.dequeued - 1 /\ hist.faults = 1)
    /\ [][hist'.published # hist.published =>
             /\ worker_asset \in Assets
             /\ loaded_queue' = Append(loaded_queue, worker_asset)]_vars

\* the worker published a loaded request and a skipped one, and ended on a fault
\* of the third
C9_Witness ==
    /\ worker_pc = "dead"
    /\ hist.dequeued = 3
    /\ hist.published = 2
    /\ \E a \in Assets : content[a] = "loaded"

\* C10: a primitive that raises in the worker puts exactly one message on
\* crash_queue: none before the fault, one once the except clause has run, and
\* under fair scheduling the message does arrive
C10_FaultReported ==
    /\ [](/\ Len(crash_queue) <= hist.faults
          /\ hist.faults <= 1
          /\ Faulted => worker_pc \in {"except", "dead"}
          /\ worker_pc = "except" => crash_queue = <<>>
          /\ worker_pc = "dead" => Len(crash_queue) = 1)
    /\ Faulted ~> (Len(crash_queue) = 1)

\* the worker ended on a fault with requests still queued
C10_Witness ==
    /\ worker_pc = "dead"
    /\ Len(crash_queue) = 1
    /\ loader_queue # <<>>

\* the percentage of the batch that is loaded, to the nearest integer
PercentLoaded == Round(Hundred * num_assets_loaded, num_assets_to_load)

\* C19: loading_percent is an integer from 0 to 100 equal to the percentage of
\* the batch's requested assets that have been loaded: 0 when a batch has been
\* requested and nothing is loaded yet, 100 when nothing is outstanding, and not
\* decreasing when a completion is drained and counted
C19_PercentOfBatch ==
    /\ [](/\ LoadingPercent \in 0..Hundred
          /\ num_assets_to_load > 0 => LoadingPercent = PercentLoaded
          /\ num_assets_to_load > 0 /\ num_assets_loaded = 0 => LoadingPercent = 0
          /\ num_assets_to_load = num_assets_loaded => LoadingPercent = Hundred)
    /\ [][num_assets_loaded' = num_assets_loaded + 1
            => LoadingPercent' >= LoadingPercent]_vars

\* C20: the ids are strictly increasing in construction order, an instance's id
\* never changes, and of two instances one is always before the other in the
\* order of loader_queue, whatever their priorities
C20_IdsIncreaseAndStay ==
    /\ [](\A a, b \in Assets :
            a < b => /\ asset_id[a] < asset_id[b]
                     /\ AssetLt(a, b) \/ AssetLt(b, a))
    /\ [][\A a \in Assets : asset_id'[a] = asset_id[a]]_vars

\* two instances of equal priority wait in loader_queue together
C20_Witness ==
    /\ Len(asset_id) = 2
    /\ priority[1] = priority[2]
    /\ InQueue(1) /\ InQueue(2)

\* C15: after any sequence of register_asset_class calls the descriptors of
\* _asset_classes are in the order of their priority, the highest first
C15_SortedByPriority ==
    \A i, j \in DOMAIN asset_classes :
        i < j => asset_classes[i].priority >= asset_classes[j].priority

\* three classes are registered and the one registered last is the first of
\* the list
C15_Witness ==
    /\ Len(asset_classes) = 3
    /\ asset_classes[1].attribute = reg_hist.order[3]
    /\ asset_classes[1].priority > asset_classes[2].priority
    /\ asset_classes[2].priority > asset_classes[3].priority

\* C16: a register_asset_class call with an attribute the mc object already has
\* raises ValueError and leaves _asset_classes and the attributes of mc as they
\* are, any other call returns; so no two descriptors have the same attribute
C16_DuplicateRejected ==
    /\ [][reg_hist'.calls # reg_hist.calls =>
            IF reg_hist'.attribute \in DOMAIN mc_attributes
            THEN raised' = "ValueError" /\ UNCHANGED <<asset_classes, mc_attributes>>
            ELSE raised' = "None"]_vars
    /\ [](\A i, j \in DOMAIN asset_classes :
            i # j => asset_classes[i].attribute # asset_classes[j].attribute)

\* the last call named the attribute of a registered class that holds an asset,
\* and was rejected
C16_Witness ==
    /\ raised = "ValueError"
    /\ \E i \in DOMAIN asset_classes :
          /\ asset_classes[i].attribute = reg_hist.attribute
          /\ mc_attributes[reg_hist.attribute] # {}

\* the place of the file under a root: root, folder of the class, file name
PathUnder(root) ==
    Path(root.abs, root.segs \o PathString.segs \o loc.file_name.segs)

\* a root was given to the call
RootGiven == loc.path # NoPath /\ loc.path[1] # EmptyPath

\* C14: locate_asset_file returns the path under the given root when the file
\* is there, whether or not it is under the machine root as well; otherwise the
\* path under the machine root when the file is there; otherwise it raises
\* ValueError
C14_GivenRootFirst ==
    loc # <<>> /\ loc.done =>
        IF RootGiven /\ PathUnder(loc.path[1]) \in loc.files
        THEN loc.result = Returns(PathUnder(loc.path[1]))
        ELSE IF PathUnder(MachinePath) \in loc.files
             THEN loc.result = Returns(PathUnder(MachinePath))
             ELSE loc.result = Raises("ValueError")

\* the file is under the root of the mode and under the machine root, and the
\* call has returned
C14_Witness ==
    /\ loc # <<>> /\ loc.done
    /\ loc.path = <<ModePath>>
    /\ PathUnder(ModePath) \in loc.files
    /\ PathUnder(MachinePath) \in loc.files
    /\ loc.result.raised = "None"

\* config[name]
Lookup(config, name) ==
    config[CHOOSE i \in DOMAIN config : config[i].k = name].v

\* the settings of the first entry of config that names the file in 'file' or is
\* named like its lower-case stem; no settings if there is none
MatchedSettings(config, entry) ==
    LET found == Matches(config, entry.file_name,
                         Lower(Splitext(entry.file_name)[1]))
    IN  IF found # {} THEN config[First(found)].v ELSE EmptyDict

\* the section of the folder the file is in, if it is in a folder under the root
\* of the type and the folder has a section
FolderSection(entry) ==
    IF /\ entry.dir # <<>>
       /\ Basename(Path(FALSE, entry.dir)) \in DOMAIN disc.section \ {"default"}
    THEN disc.section[Basename(Path(FALSE, entry.dir))]
    ELSE EmptyDict

\* the same, but a folder named like the folder of the type has no section
FolderSectionButRoot(entry) ==
    IF Basename(Path(FALSE, entry.dir)) = Basename(PathString)
    THEN EmptyDict ELSE FolderSection(entry)

\* default, overlaid by the folder's section, overlaid by the matched entry,
\* with 'file' set to the full path
Overlaid(folder_section, config, entry) ==
    Update(Update(Update(disc.section["default"], folder_section),
                  MatchedSettings(config, entry)),
           [k \in {"file"} |-> PathStr(FullFilePath(entry))])

\* a 'load' of mode_start replaced by <mode_name>_start
ModeQualified(config) ==
    IF config["load"] = "mode_start"
    THEN [config EXCEPT !["load"] = Format(disc.mode_name) \o "_start"]
    ELSE config

\* a file with one of the extensions is handled in this step
Discovers == disc # <<>> /\ Len(disc'.seen) = Len(disc.seen) + 1

C18_LastFileWins ==
    disc # <<>> /\ disc.returned =>
        \A i, j \in DOMAIN disc.seen :
            /\ i < j
            /\ disc.seen[i].name = disc.seen[j].name
            /\ disc.seen[i].entry.dir # disc.seen[j].entry.dir
            /\ \A l \in DOMAIN disc.seen : l > j => disc.seen[l].name # disc.seen[j].name
            => /\ Cardinality({l \in DOMAIN disc.config :
                                  disc.config[l].k = disc.seen[j].name}) = 1
               /\ Lookup(disc.config, disc.seen[j].name) =
                      ModeQualified(Overlaid(FolderSectionButRoot(disc.seen[j].entry),
                                             disc.given, disc.seen[j].entry))

\* the assets of construction order whose config['load'] is key
Keyed(key) == {a \in DOMAIN mc.load : mc.load[a] = key}

\* number of places of seq that hold x
Count(seq, x) == Cardinality({i \in DOMAIN seq : seq[i] = x})

\* C11: when an asset with load 'preload' exists, clear_boot_hold('assets') is
\* called only when num_assets_to_load is zero and every asset with load
\* 'preload' has had its completion taken off loaded_queue and been marked
\* Loaded, with no request of it left in a queue or with the worker
C11_GateWaitsForPreload ==
    [][mc'.cleared # mc.cleared /\ Keyed("preload") # {} =>
        /\ num_assets_to_load = 0
        /\ \A a \in Keyed("preload") :
              /\ a \in hist.marked
              /\ ~InQueue(a)
              /\ worker_asset # a
              /\ Count(loaded_queue, a) = 0]_vars

\* two assets with load 'preload' exist and the boot hold has been cleared
C11_Witness ==
    /\ mc.cleared = 1
    /\ Cardinality(Keyed("preload")) = 2

\* C12: clear_boot_hold('assets') is called at most once; _create_assets calls
\* it itself when no asset has load 'preload'; and once _create_assets has
\* returned it has been called or will be, unless _do_load raises
C12_GateOpensOnce ==
    /\ [](mc.cleared <= 1)
    /\ [][mc.op = "_create_assets" /\ mc'.op = "none" /\ Keyed("preload") = {}
            => mc'.cleared = 1]_vars
    /\ (mc.started /\ mc.op # "_create_assets") ~> (mc.cleared = 1 \/ Faulted)

\* an asset with load 'preload' and an asset of a mode exist, no _do_load has
\* raised, and the boot hold has been cleared
C12_Witness ==
    /\ mc.cleared = 1
    /\ ~Faulted
    /\ Cardinality(Keyed("preload")) = 1
    /\ Cardinality(Keyed("mode1_start")) = 1

\* the control thread takes a step of load_assets_by_load_key
LoadByKeyStep == mc.op = "load_assets_by_load_key" /\ worker_pc' = worker_pc

\* C13: load_assets_by_load_key(key) calls load() once on each asset whose
\* config['load'] is key and on no other, returns the set of these assets, and
\* leaves the flags, callbacks, priority and queue membership of every other
\* asset as they are
C13_LoadsTheKeyed ==
    /\ [][LoadByKeyStep /\ mc'.op = "none" =>
            /\ mc'.returned = Keyed(mc.key)
            /\ \A a \in Assets :
                  Count(mc.called, a) = IF a \in Keyed(mc.key) THEN 1 ELSE 0]_vars
    /\ [][LoadByKeyStep =>
            \A b \in Assets \ Keyed(mc.key) :
                /\ loading'[b] = loading[b]
                /\ loaded'[b] = loaded[b]
                /\ unloading'[b] = unloading[b]
                /\ callbacks'[b] = callbacks[b]
                /\ priority'[b] = priority[b]
                /\ Count(loader_queue', b) = Count(loader_queue, b)]_vars

\* load_assets_by_load_key('mode1_start') has returned the one asset of the
\* mode while the asset with load 'preload' was still loading
C13_Witness ==
    /\ mc.op = "none"
    /\ mc.key = "mode1_start"
    /\ Cardinality(mc.returned) = 1
    /\ \E b \in Keyed("preload") : loading[b]

\* C21: while no unload() has been called, the worker invokes _do_load at most
\* once for an asset: it is never about to invoke it on an asset whose content an
\* earlier _do_load has already loaded
C21_PrimitiveOnce ==
    (worker_pc = "do_load" /\ hist.unloads = 0) => content[worker_asset] # "loaded"

\* the order in which repeated get() calls take the requests off a heap
RECURSIVE DequeueOrder(_)
DequeueOrder(heap) ==
    IF heap = <<>> THEN <<>>
    ELSE <<HeappopItem(heap)>> \o DequeueOrder(HeappopRest(heap))

\* the order in which the worker would take the requests now in loader_queue
QueueOrder == DequeueOrder(loader_queue)

\* seq without its element at place i
Without(seq, i) == SubSeq(seq, 1, i - 1) \o SubSeq(seq, i + 1, Len(seq))

\* C22: load(priority=p) leaves the dequeue order of the requests already in
\* loader_queue as it was: the assignment of the priority does not change the
\* order, and the request the call then submits takes a place in the order
\* without changing the order of the others
C22_QueuedOrderKept ==
    [][/\ (ctl_pc = "idle" /\ ctl_pc' = "load_617") => QueueOrder' = QueueOrder
       /\ (ctl_pc = "load_626" /\ ctl_pc' = "idle") =>
              \E i \in DOMAIN QueueOrder' :
                  /\ QueueOrder'[i] = ctl_asset
                  /\ Without(QueueOrder', i) = QueueOrder]_vars

\* the lifecycle state of an asset, read off its three flags (lines 598-600)
LifecycleOf(ld, lg, ul, a) ==
    IF ul[a] THEN "Unloading"
    ELSE IF ld[a] THEN "Loaded"
    ELSE IF lg[a] THEN "Loading"
    ELSE "Unloaded"
Lifecycle(a) == LifecycleOf(loaded, loading, unloading, a)
\* the poll takes the completion of asset a and begins a._loaded()
BeginsLoaded(a) == ctl_pc # "loaded_644" /\ ctl_pc' = "loaded_644" /\ ctl_asset' = a
\* a._loaded() assigns loaded = True, line 644
MarksLoaded(a) == ctl_pc = "loaded_644" /\ ctl_asset = a /\ ctl_pc' = "loaded_645"

\* C23: an asset changes its lifecycle state only by Unloaded -> Loading in
\* load(), Loading -> Loaded in the _loaded() of a drained completion (taken as
\* one transition: it begins on a Loading asset, or on a Loaded one that it
\* leaves Loaded) and Loaded -> Unloading -> Unloaded in unload(); no other step
\* changes the state
C23_LifecycleTransitions ==
    [][\A a \in Assets :
        LET s == Lifecycle(a)
            t == LifecycleOf(loaded', loading', unloading', a)
        IN  /\ BeginsLoaded(a) => s \in {"Loading", "Loaded"}
            /\ MarksLoaded(a) => t = "Loaded"
            /\ (s # t /\ ~BeginsLoaded(a) /\ ~MarksLoaded(a)) =>
                   \/ s = "Unloaded" /\ t = "Loading" /\ ctl_pc = "load_617"
                   \/ s = "Loaded" /\ t = "Unloading" /\ ctl_pc' = "unload_650"
                   \/ s = "Unloading" /\ t = "Unloaded" /\ ctl_pc = "unload_653"]_vars

\* a step of the control thread inside unload(), lines 649-653
UnloadStep ==
    \/ ctl_pc = "idle" /\ ctl_pc' = "unload_650"
    \/ ctl_pc \in {"unload_650", "unload_651", "unload_652", "unload_653"} /\ ctl_pc' # ctl_pc
Unloadee == IF ctl_pc = "idle" THEN ctl_asset' ELSE ctl_asset

\* C24: no step of unload() changes loader_queue, loaded_queue, the two
\* counters, _loaded_watcher or the pending callbacks of the asset, and
\* _do_unload runs in a step of the control thread inside unload(), never in a
\* step of the worker
C24_UnloadNoQueueInteraction ==
    [][/\ UnloadStep =>
            /\ loader_queue' = loader_queue
            /\ loaded_queue' = loaded_queue
            /\ num_assets_to_load' = num_assets_to_load
            /\ num_assets_loaded' = num_assets_loaded
            /\ loaded_watcher' = loaded_watcher
            /\ callbacks'[Unloadee] = callbacks[Unloadee]
       /\ hist'.do_unloads # hist.do_unloads =>
            /\ ctl_pc = "unload_652"
            /\ UNCHANGED <<workerVars, crash_queue>>]_vars

\* unload() is about to return on an asset with a pending callback while one
\* request is queued, one completion is undrained and polling is on
C24_Witness ==
    /\ ctl_pc = "unload_653"
    /\ loader_queue # <<>>
    /\ loaded_queue # <<>>
    /\ num_assets_to_load = 2
    /\ loaded_watcher
    /\ callbacks[ctl_asset] # {}
    /\ content[ctl_asset] = "unloaded"

\* asset a is held by the worker: dequeued at line 545, not yet put on
\* loaded_queue at line 550
InFlight(a) == worker_asset = a /\ worker_pc \in {"check", "do_load", "put"}
\* a step of AssetLoader.run
WorkerStep == worker_pc' # worker_pc

\* no step of the worker changes num_assets_to_load,
\* num_assets_loaded, _loaded_watcher or the registries of asset classes and
\* machine attributes
WorkerWritesNoManagerState ==
    WorkerStep =>
        UNCHANGED <<num_assets_to_load, num_assets_loaded, loaded_watcher,
                    asset_classes, mc_attributes, asset_id, next_id>>

\* while the worker holds asset a, no step of the control
\* thread changes a field of a or runs a method of a
ControlLeavesInFlightAlone ==
    \A a \in Assets :
        (InFlight(a) /\ ~WorkerStep) =>
            /\ priority'[a] = priority[a]
            /\ loading'[a] = loading[a]
            /\ loaded'[a] = loaded[a]
            /\ unloading'[a] = unloading[a]
            /\ callbacks'[a] = callbacks[a]
            /\ content'[a] = content[a]
            /\ ctl_asset' # a

\* C25: thread isolation: the worker writes no manager state, and the control
\* thread neither runs a method of an asset nor writes one of its fields between
\* the worker's dequeue of the asset and its publication on loaded_queue
C25_ThreadIsolation ==
    [][WorkerWritesNoManagerState /\ ControlLeavesInFlightAlone]_vars

\* the requests submitted and not yet drained: in loader_queue, held by the
\* worker between lines 545 and 550, or on loaded_queue
Outstanding ==
    Len(loader_queue)
        + (IF worker_pc \in {"check", "do_load", "put"} THEN 1 ELSE 0)
        + Len(loaded_queue)
Conservation ==
    /\ 0 <= num_assets_loaded
    /\ num_assets_loaded <= num_assets_to_load
    /\ num_assets_to_load - num_assets_loaded = Outstanding

\* C26 as stated: in every state with no worker fault, 0 <= num_assets_loaded
\* <= num_assets_to_load and num_assets_to_load - num_assets_loaded is the
\* number of requests in loader_queue, held by the worker or on loaded_queue
C26_CounterConservation == ~Faulted => Conservation

\* C26 amended: the same equation in every state with no worker fault in which
\* the control thread is between operations; inside _check_loader_status a
\* completion is off loaded_queue (line 491) before it is counted (line 492)
C26_CounterConservationBetweenOperations ==
    (ctl_pc = "idle" /\ ~Faulted) => Conservation

\* between operations, three requests submitted, one drained, one queued and one
\* held by the worker
C26_Witness ==
    /\ ctl_pc = "idle"
    /\ ~Faulted
    /\ num_assets_to_load = 3
    /\ num_assets_loaded = 1
    /\ Len(loader_queue) = 1
    /\ worker_pc = "put"

\* C27: whenever the control thread is between operations, _loaded_watcher is
\* set exactly when num_assets_to_load > 0: the poll is scheduled while a request
\* is outstanding and is unscheduled once the batch has drained
C27_WatcherIffToLoad ==
    ctl_pc = "idle" => (loaded_watcher <=> num_assets_to_load > 0)

\* a batch of two requests has drained and the poll has unscheduled itself, and a
\* request submitted after that has scheduled it again
C27_Witness ==
    /\ ctl_pc = "idle"
    /\ hist.drained = 2
    /\ hist.submitted = 3
    /\ num_assets_to_load = 1
    /\ loaded_watcher

\* C28: whenever the loaded flag of an asset is set, the last primitive run on
\* the asset was _do_load, not _do_unload: no asset is marked loaded while its
\* content is unloaded
C28_LoadedFlagSound ==
    \A a \in Assets : loaded[a] => content[a] = "loaded"

\* C29: once a _do_load has raised, the worker takes no request off
\* loader_queue and puts none on loaded_queue, num_assets_to_load stays above 0,
\* _loaded_watcher stays set, and a _startup_load_tracker that is scheduled
\* stays scheduled and does not clear the boot hold
C29_FaultStopsWorker ==
    [][Faulted =>
        /\ hist'.dequeued = hist.dequeued
        /\ hist'.published = hist.published
        /\ loader_queue # <<>> => loader_queue' # <<>>
        /\ num_assets_to_load > 0 /\ num_assets_to_load' > 0
        /\ loaded_watcher /\ loaded_watcher'
        /\ mc.tracker => (mc'.tracker /\ mc'.cleared = mc.cleared)]_vars

\* the worker has ended after a fault, a request submitted after the fault
\* waits in loader_queue, the completion published before the fault is drained
\* and the startup tracker is still scheduled
C29_Witness ==
    /\ Faulted
    /\ worker_pc = "dead"
    /\ crash_queue # <<>>
    /\ loader_queue # <<>>
    /\ ctl_pc = "idle"
    /\ mc.op = "none"
    /\ mc.tracker
    /\ mc.cleared = 0
    /\ hist.drained >= 1

====
